---- MODULE Spec2Model ----
(***************************************************************************)
(* Model of the NVDA OCR plugin's HOCR parser (HocrParser), of the         *)
(* offset-addressable text view built on it (OcrTextInfo) and of the       *)
(* script that runs the OCR (GlobalPlugin.script_ocrNavigatorObject), from *)
(* addon/globalPlugins/ocr/__init__.py.                                    *)
(*                                                                         *)
(* Strings are sequences of one-character strings.  A coordinate that the  *)
(* code holds as a float (origin + pixel / IMAGE_RESIZE_FACTOR) is held    *)
(* here as the exact numerator over IMAGE_RESIZE_FACTOR; int() of such a   *)
(* float is truncation toward zero of numerator / IMAGE_RESIZE_FACTOR.     *)
(***************************************************************************)
EXTENDS Integers, Sequences, FiniteSets, TLC

VARIABLES
    leftCoordOffset,      \* HocrParser.leftCoordOffset
    topCoordOffset,       \* HocrParser.topCoordOffset
    textList,             \* HocrParser._textList: the retained fragments
    textLen,              \* HocrParser.textLen
    lines,                \* HocrParser.lines
    words,                \* HocrParser.words
    hasBlockHadContent,   \* HocrParser._hasBlockHadContent
    text,                 \* HocrParser.text (set when Parse returns)
    pc,                   \* HocrParser: "unbuilt", "parsing", "done"
                          \* (constructor returned), "failed" (it raised)
    exc,                  \* the exception raised in the script, or "none"
    depth,                \* expat: number of open elements
    nEvents,              \* expat: events delivered so far
    event,                \* the event handled last
    result,               \* the last text-view query and what it returned
    spc,                  \* script_ocrNavigatorObject: where it is
    messages,             \* what ui.message has announced, in order
    imgExists,            \* the file baseFile + ".bmp" exists
    hocrExists,           \* the file baseFile + ".html" exists
    view                  \* the OcrTextInfo the host holds (review position)

vars == <<leftCoordOffset, topCoordOffset, textList, textLen, lines, words,
          hasBlockHadContent, text, pc, exc, depth, nEvents, event, result,
          spc, messages, imgExists, hocrExists, view>>

scriptVars == <<spc, messages, imgExists, hocrExists, view>>

parserVars == <<textList, textLen, lines, words, hasBlockHadContent>>

---------------------------------------------------------------------------
(* Bounds *)

\* start-element and character-data events expat delivers in one parse
\* (every end-element event closes an element one of them opened)
MaxEvents == 4
\* characters the character-data events of one parse may bring textLen to
MaxTextLen == 8

---------------------------------------------------------------------------
(* Program constants and input alphabets *)

IMAGE_RESIZE_FACTOR == 2

Whitespace == {" ", "\n", "\t"}

Digit == {"0", "1", "2", "3", "4", "5", "6", "7", "8", "9"}

\* what attrs.get("title") returns when the span has no title attribute
None == <<"None">>

\* capture origins (nav.location left, top)
Origins == {<<100, 50>>}

\* title attributes: two parsable boxes (even and odd left/top), one with
\* the fourth number missing
TitleEven == <<"b","b","o","x"," ","4"," ","6"," ","8"," ","9">>
TitleOdd == <<"b","b","o","x"," ","3"," ","7"," ","8"," ","9">>
TitleShort == <<"b","b","o","x"," ","1","0"," ","2","0"," ","3","0">>

Titles == {TitleEven, TitleOdd, TitleShort}

\* attribute dictionaries of the elements: the keys present, and the values
\* of "class" and "title" when present
Attrs(keys, cls, title) == [keys |-> keys, class |-> cls, title |-> title]

NoAttrs == Attrs({}, "", <<>>)

SpanAttrs ==
    {Attrs({"class"}, c, <<>>) : c \in {"ocr_line", "ocr_word", "ocrx_word"}}
    \cup {Attrs({"class", "title"}, "ocr_word", t) : t \in Titles}
    \cup {NoAttrs}

Tags == {"p", "div", "span", "body"}

\* character data events: whitespace only, plain, a fragment that ends in a
\* space, text with leading, inner and trailing whitespace
Datas ==
    { <<" ">>, <<"\n", " ">>, <<"a">>, <<"a", " ">>,
      <<" ", "a", " ", " ", "b", " ">> }

---------------------------------------------------------------------------
(* Python built-ins the handlers use *)

Last(s) == s[Len(s)]

\* str.isspace()
isspace(data) == Len(data) > 0 /\ \A i \in 1..Len(data) : data[i] \in Whitespace

\* "".join(list)
RECURSIVE join(_)
join(l) == IF l = <<>> THEN <<>> ELSE Head(l) \o join(Tail(l))

\* str.split(sep) for a one-character sep
RECURSIVE split(_, _)
split(s, sep) ==
    IF \E i \in 1..Len(s) : s[i] = sep
    THEN LET i == CHOOSE i \in 1..Len(s) :
                     s[i] = sep /\ \A j \in 1..(i-1) : s[j] # sep
         IN <<SubSeq(s, 1, i-1)>> \o split(SubSeq(s, i+1, Len(s)), sep)
    ELSE <<s>>

DigitVal(c) ==
    CASE c = "0" -> 0 [] c = "1" -> 1 [] c = "2" -> 2 [] c = "3" -> 3
      [] c = "4" -> 4 [] c = "5" -> 5 [] c = "6" -> 6 [] c = "7" -> 7
      [] c = "8" -> 8 [] c = "9" -> 9

\* int(str) accepts a token of decimal digits
IsIntLiteral(tok) == Len(tok) > 0 /\ \A i \in 1..Len(tok) : tok[i] \in Digit

RECURSIVE intOfStr(_)
intOfStr(tok) ==
    IF tok = <<>> THEN 0
    ELSE 10 * intOfStr(SubSeq(tok, 1, Len(tok) - 1)) + DigitVal(Last(tok))

\* int(float) of num / IMAGE_RESIZE_FACTOR: truncation toward zero
intOfFloat(num) ==
    IF num >= 0 THEN num \div IMAGE_RESIZE_FACTOR
    ELSE -((-num) \div IMAGE_RESIZE_FACTOR)

\* an int as a float, in units of 1 / IMAGE_RESIZE_FACTOR
floatOfInt(n) == n * IMAGE_RESIZE_FACTOR

---------------------------------------------------------------------------
(* HocrParser *)

OcrWord(offset, left, top) == [offset |-> offset, left |-> left, top |-> top]

\* attrs.get("title")
getTitle(attrs) == IF "title" \in attrs.keys THEN attrs.title ELSE None

\* the exception _startElement raises on (tag, attrs), or "none"
startElementExc(tag, attrs) ==
    IF tag # "span" THEN "none"
    ELSE IF "class" \notin attrs.keys THEN "KeyError"
    ELSE IF attrs.class # "ocr_word" THEN "none"
    ELSE IF getTitle(attrs) = None THEN "AttributeError"
    ELSE LET parts == split(getTitle(attrs), " ") IN
         IF Len(parts) # 5 THEN "ValueError"
         ELSE IF ~IsIntLiteral(parts[2]) \/ ~IsIntLiteral(parts[3])
              THEN "ValueError"
              ELSE "none"

\* wordOfTitle with the word placed one character past the text length
wordOfTitlePastEnd(title, offset, lco, tco) ==
    LET parts == split(title, " ") IN
    OcrWord(offset + 1,
            floatOfInt(lco) + intOfStr(parts[2]),
            floatOfInt(tco) + intOfStr(parts[3]))

\* the OcrWord _startElement builds from a title whose parsing raises nothing
wordOfTitle(title, offset, lco, tco) ==
    LET parts == split(title, " ") IN
    OcrWord(offset,
            floatOfInt(lco) + intOfStr(parts[2]),
            floatOfInt(tco) + intOfStr(parts[3]))

\* appendLine with the new boundary inserted at the front of the list
appendLineAtFront(ls, len) == <<len>> \o ls

\* appendLine recording the position after the line's first character
appendLineOneLate(ls, len) == Append(ls, len + 1)

\* self.lines.append(self.textLen)
appendLine(ls, len) == Append(ls, len)

\* addLen counting one per fragment instead of one per character
addLenPerFragment(len, data) == len + 1

\* self.textLen += len(data)
addLen(len, data) == len + Len(data)

\* retained without the test of the block-content flag
retainedWhateverTheFlag(data, had, tl) ==
    IF isspace(data)
    THEN IF tl # <<>> /\ Last(tl) = <<" ">> THEN <<>> ELSE << <<" ">> >>
    ELSE <<data>>

\* the fragment _charData retains for data, as a list of zero or one fragments
retained(data, had, tl) ==
    IF isspace(data)
    THEN IF ~had THEN <<>>
         ELSE IF tl # <<>> /\ Last(tl) = <<" ">> THEN <<>>
         ELSE << <<" ">> >>
    ELSE <<data>>

StartEvent(tag, attrs) == [kind |-> "start", tag |-> tag, attrs |-> attrs, data |-> <<>>]
EndEvent == [kind |-> "end", tag |-> "", attrs |-> NoAttrs, data |-> <<>>]
DataEvent(data) == [kind |-> "data", tag |-> "", attrs |-> NoAttrs, data |-> data]
NoEvent == [kind |-> "none", tag |-> "", attrs |-> NoAttrs, data |-> <<>>]

---------------------------------------------------------------------------
(* OcrTextInfo *)

\* what a query did: returned a value (a tuple of integers) or raised
Returns(v) == [kind |-> "value", value |-> v, exc |-> "none"]
Raises(e) == [kind |-> "error", value |-> <<>>, exc |-> e]

\* lineScan stopping at the first boundary >= offset instead of > offset
RECURSIVE lineScanAtOrAfter(_, _, _, _)
lineScanAtOrAfter(ls, start, len, offset) ==
    IF ls = <<>> THEN <<start, len>>
    ELSE IF Head(ls) >= offset THEN <<start, Head(ls)>>
    ELSE lineScanAtOrAfter(Tail(ls), Head(ls), len, offset)

\* the loop of _getLineOffsets over the rest ls of self._parser.lines
RECURSIVE lineScan(_, _, _, _)
lineScan(ls, start, len, offset) ==
    IF ls = <<>> THEN <<start, len>>
    ELSE IF Head(ls) > offset THEN <<start, Head(ls)>>
    ELSE lineScan(Tail(ls), Head(ls), len, offset)

\* getLineOffsets with the offset asked for as the first start
getLineOffsetsFromOffset(ls, len, offset) == lineScan(ls, offset, len, offset)

getLineOffsets(ls, len, offset) == lineScan(ls, 0, len, offset)

\* wordScan stopping at the first word at or after offset instead of after it
RECURSIVE wordScanAtOrAfter(_, _, _, _)
wordScanAtOrAfter(ws, start, len, offset) ==
    IF ws = <<>> THEN <<start, len>>
    ELSE IF Head(ws).offset >= offset THEN <<start, Head(ws).offset>>
    ELSE wordScanAtOrAfter(Tail(ws), Head(ws).offset, len, offset)

\* the loop of _getWordOffsets over the rest ws of self._parser.words
RECURSIVE wordScan(_, _, _, _)
wordScan(ws, start, len, offset) ==
    IF ws = <<>> THEN <<start, len>>
    ELSE IF Head(ws).offset > offset THEN <<start, Head(ws).offset>>
    ELSE wordScan(Tail(ws), Head(ws).offset, len, offset)

getWordOffsets(ws, len, offset) == wordScan(ws, 0, len, offset)

\* the for loop of _getPointFromOffset over the rest ws of the words: how it
\* ends ("break", or "else" when the list is exhausted) and the local `word`
\* then (<<>> while it is unbound)
RECURSIVE pointScan(_, _, _)
pointScan(ws, word, offset) ==
    IF ws = <<>> THEN [how |-> "else", word |-> word]
    ELSE IF Head(ws).offset > offset THEN [how |-> "break", word |-> word]
    ELSE pointScan(Tail(ws), <<Head(ws)>>, offset)

\* leftCoordOffset and topCoordOffset are ints (nav.location), which int()
\* returns as they are
getPointFromOffset(ws, lco, tco, offset) ==
    LET r == pointScan(ws, <<>>, offset) IN
    IF r.how = "else" THEN Returns(<<lco, tco>>)
    ELSE IF r.word = <<>> THEN Raises("UnboundLocalError")
    ELSE Returns(<<intOfFloat(r.word[1].left), intOfFloat(r.word[1].top)>>)

getStoryLength(len) == len

\* a slice index as Python resolves it against a sequence of length n
sliceIndex(i, n) ==
    LET j == IF i < 0 THEN i + n ELSE i IN
    IF j < 0 THEN 0 ELSE IF j > n THEN n ELSE j

\* self._parser.text[start:end]
getTextRange(txt, start, end) ==
    SubSeq(txt, sliceIndex(start, Len(txt)) + 1, sliceIndex(end, Len(txt)))

\* an OcrTextInfo: the parser it reads and whether copy() made it
OcrTextInfo(parser, isCopy) == [parser |-> parser, isCopy |-> isCopy]

NoView == OcrTextInfo("none", FALSE)

\* a copy that reads a parser of its own, which has parsed nothing
copyOfNothing(v) == OcrTextInfo("none", TRUE)

\* copy(): a new OcrTextInfo on self._parser
copy(v) == OcrTextInfo(v.parser, TRUE)

\* the parser object a view's _parser refers to: the one the script built,
\* or (for a reference to no such object) a parser that has parsed nothing
ParserOf(v) ==
    IF v.parser = "parser"
    THEN [text |-> text, textLen |-> textLen, lines |-> lines, words |-> words,
          leftCoordOffset |-> leftCoordOffset, topCoordOffset |-> topCoordOffset]
    ELSE [text |-> <<>>, textLen |-> 0, lines |-> <<>>, words |-> <<>>,
          leftCoordOffset |-> 0, topCoordOffset |-> 0]

\* offsets the host queries with: the story and one position either side
Offsets == -1 .. (textLen + 1)

\* (start, end) pairs the host asks text for: in range, start after end, and
\* either of them outside the story
Ranges == {-1, 0, 1} \X {0, textLen, textLen + 1}

Query(op, offset, r) ==
    [op |-> op, offset |-> offset, end |-> 0, kind |-> r.kind, value |-> r.value,
     exc |-> r.exc]

RangeQuery(start, end, r) ==
    [op |-> "text", offset |-> start, end |-> end, kind |-> r.kind,
     value |-> r.value, exc |-> r.exc]

NoResult == Query("none", 0, [kind |-> "none", value |-> <<>>, exc |-> "none"])

\* the script holds the resized image of the navigator object and has written
\* no file; the parser's fields hold the values HocrParser.__init__ gives
\* them before it parses
Init ==
    /\ \E o \in Origins : leftCoordOffset = o[1] /\ topCoordOffset = o[2]
    /\ textList = <<>>
    /\ textLen = 0
    /\ lines = <<>>
    /\ words = <<>>
    /\ hasBlockHadContent = FALSE
    /\ text = <<>>
    /\ pc = "unbuilt"
    /\ exc = "none"
    /\ depth = 0
    /\ nEvents = 0
    /\ event = NoEvent
    /\ result = NoResult
    /\ spc = "start"
    /\ messages = <<>>
    /\ imgExists = FALSE
    /\ hocrExists = FALSE
    /\ view = NoView

\* expat delivers a start-element event: the root element first, every
\* other element inside it
StartElement(tag, attrs) ==
    /\ pc = "parsing"
    /\ nEvents < MaxEvents
    /\ depth > 0 \/ nEvents = 0
    /\ nEvents' = nEvents + 1
    /\ event' = StartEvent(tag, attrs)
    /\ IF startElementExc(tag, attrs) # "none"
       THEN /\ pc' = "failed"
            /\ exc' = startElementExc(tag, attrs)
            /\ UNCHANGED <<parserVars, depth>>
       ELSE /\ depth' = depth + 1
            /\ hasBlockHadContent' =
                   IF tag \in {"p", "div"} THEN FALSE ELSE hasBlockHadContent
            /\ lines' = IF tag = "span" /\ attrs.class = "ocr_line"
                        THEN appendLine(lines, textLen) ELSE lines
            /\ words' = IF tag = "span" /\ attrs.class = "ocr_word"
                        THEN Append(words, wordOfTitle(getTitle(attrs), textLen,
                                        leftCoordOffset, topCoordOffset))
                        ELSE words
            /\ UNCHANGED <<textList, textLen, pc, exc>>
    /\ UNCHANGED <<leftCoordOffset, topCoordOffset, text, result, scriptVars>>

\* expat delivers an end-element event
EndElement ==
    /\ pc = "parsing"
    /\ depth > 0
    /\ depth' = depth - 1
    /\ event' = EndEvent
    /\ UNCHANGED <<leftCoordOffset, topCoordOffset, parserVars, text, pc, exc,
                   nEvents, result, scriptVars>>

\* expat delivers a character-data event (inside the root element)
CharData(data) ==
    /\ pc = "parsing"
    /\ nEvents < MaxEvents
    /\ depth > 0
    /\ textLen + Len(data) <= MaxTextLen
    /\ nEvents' = nEvents + 1
    /\ event' = DataEvent(data)
    /\ LET kept == retained(data, hasBlockHadContent, textList) IN
       IF kept = <<>>
       THEN UNCHANGED <<textList, textLen, hasBlockHadContent>>
       ELSE /\ hasBlockHadContent' = TRUE
            /\ textList' = Append(textList, kept[1])
            /\ textLen' = addLen(textLen, kept[1])
    /\ UNCHANGED <<leftCoordOffset, topCoordOffset, lines, words, text, pc, exc,
                   depth, result, scriptVars>>

\* parser.Parse returns: the root element is closed; the constructor joins
\* the fragments and returns
ParseReturns ==
    /\ pc = "parsing"
    /\ depth = 0
    /\ nEvents > 0
    /\ text' = join(textList)
    /\ pc' = "done"
    /\ UNCHANGED <<leftCoordOffset, topCoordOffset, parserVars, exc, depth,
                   nEvents, event, result, scriptVars>>

\* a constructor that passes over the ExpatError and returns an object built
\* from the events seen before it
ParseRaisesSwallowed ==
    /\ pc = "parsing"
    /\ text' = join(textList)
    /\ pc' = "done"
    /\ exc' = "ExpatError"
    /\ UNCHANGED <<leftCoordOffset, topCoordOffset, parserVars, depth,
                   nEvents, event, result, scriptVars>>

\* parser.Parse raises ExpatError: the markup is not well formed at the
\* point reached
ParseRaises ==
    /\ pc = "parsing"
    /\ pc' = "failed"
    /\ exc' = "ExpatError"
    /\ UNCHANGED <<leftCoordOffset, topCoordOffset, parserVars, text, depth,
                   nEvents, event, result, scriptVars>>

viewFrame == <<leftCoordOffset, topCoordOffset, parserVars, text, pc, exc,
               depth, nEvents, event, scriptVars>>

\* the host queries the view it holds, once the script has returned
GetStoryLength ==
    /\ pc = "done"
    /\ spc = "returned"
    /\ result = NoResult
    /\ result' = Query("storyLength", 0,
                       Returns(<<getStoryLength(ParserOf(view).textLen)>>))
    /\ UNCHANGED viewFrame

GetTextRange(start, end) ==
    /\ pc = "done"
    /\ spc = "returned"
    /\ result = NoResult
    /\ result' = RangeQuery(start, end,
                            Returns(getTextRange(ParserOf(view).text, start, end)))
    /\ UNCHANGED viewFrame

GetLineOffsets(offset) ==
    /\ pc = "done"
    /\ spc = "returned"
    /\ result = NoResult
    /\ result' = Query("line", offset,
                       Returns(getLineOffsets(ParserOf(view).lines,
                                              ParserOf(view).textLen, offset)))
    /\ UNCHANGED viewFrame

GetWordOffsets(offset) ==
    /\ pc = "done"
    /\ spc = "returned"
    /\ result = NoResult
    /\ result' = Query("word", offset,
                       Returns(getWordOffsets(ParserOf(view).words,
                                              ParserOf(view).textLen, offset)))
    /\ UNCHANGED viewFrame

GetPointFromOffset(offset) ==
    /\ pc = "done"
    /\ spc = "returned"
    /\ result = NoResult
    /\ result' = Query("point", offset,
                       getPointFromOffset(ParserOf(view).words,
                                          ParserOf(view).leftCoordOffset,
                                          ParserOf(view).topCoordOffset, offset))
    /\ UNCHANGED viewFrame

\* the value a query returned passes to the host, which may query again
TakeResult ==
    /\ result # NoResult
    /\ result' = NoResult
    /\ UNCHANGED viewFrame

\* the host copies the view it holds and goes on with the copy
Copy ==
    /\ pc = "done"
    /\ spc = "returned"
    /\ view' = copy(view)
    /\ UNCHANGED <<leftCoordOffset, topCoordOffset, parserVars, text, pc, exc,
                   depth, nEvents, event, result, spc, messages, imgExists,
                   hocrExists>>

---------------------------------------------------------------------------
(* GlobalPlugin.script_ocrNavigatorObject, from the resized image on *)

\* a finally clause that leaves the file where it is
osRemoveSkipped(exists) == exists

\* os.remove(file) with OSError passed over: whether the file exists after
osRemove(exists) == FALSE

scriptFrame == <<leftCoordOffset, topCoordOffset, parserVars, text, depth,
                 nEvents, event, result>>

\* img.save(imgFile) succeeds
SaveImage ==
    /\ spc = "start"
    /\ imgExists' = TRUE
    /\ spc' = "saved"
    /\ UNCHANGED <<scriptFrame, pc, exc, messages, hocrExists, view>>

\* img.save(imgFile) raises, with the file written in part or not at all;
\* the finally clause removes it and the exception leaves the script
SaveImageFails ==
    /\ spc = "start"
    /\ \E written \in BOOLEAN : imgExists' = osRemove(written)
    /\ exc' = "OSError"
    /\ spc' = "raised"
    /\ UNCHANGED <<scriptFrame, pc, messages, hocrExists, view>>

\* ui.message(_("Running OCR"))
AnnounceRunning ==
    /\ spc = "saved"
    /\ messages' = Append(messages, "Running OCR")
    /\ spc' = "announced"
    /\ UNCHANGED <<scriptFrame, pc, exc, imgExists, hocrExists, view>>

\* subprocess.check_call of Tesseract returns; the finally clause removes
\* the image
RunTesseract ==
    /\ spc = "announced"
    /\ hocrExists' = TRUE
    /\ imgExists' = osRemove(imgExists)
    /\ spc' = "ocrDone"
    /\ UNCHANGED <<scriptFrame, pc, exc, messages, view>>

\* subprocess.check_call raises (Tesseract exits with an error, having
\* written its output or not); the finally clause removes the image and the
\* exception leaves the script
RunTesseractFails ==
    /\ spc = "announced"
    /\ \E written \in BOOLEAN : hocrExists' = written
    /\ imgExists' = osRemove(imgExists)
    /\ exc' = "CalledProcessError"
    /\ spc' = "raised"
    /\ UNCHANGED <<scriptFrame, pc, messages, view>>

\* open(hocrFile).read() returns and HocrParser.__init__ starts the parse
ReadHocr ==
    /\ spc = "ocrDone"
    /\ pc' = "parsing"
    /\ spc' = "parse"
    /\ UNCHANGED <<scriptFrame, exc, messages, imgExists, hocrExists, view>>

\* open(hocrFile).read() raises; the finally clause removes the file and
\* the exception leaves the script
ReadHocrFails ==
    /\ spc = "ocrDone"
    /\ hocrExists' = osRemove(hocrExists)
    /\ exc' = "OSError"
    /\ spc' = "raised"
    /\ UNCHANGED <<scriptFrame, pc, messages, imgExists, view>>

\* the HocrParser constructor has returned or raised: the finally clause
\* removes the HOCR file, and an exception leaves the script
ParserEnds ==
    /\ spc = "parse"
    /\ pc \in {"done", "failed"}
    /\ hocrExists' = osRemove(hocrExists)
    /\ spc' = IF pc = "done" THEN "parsed" ELSE "raised"
    /\ UNCHANGED <<scriptFrame, pc, exc, messages, imgExists, view>>

\* nav.makeTextInfo = ...; api.setReviewPosition(nav.makeTextInfo(...))
SetReviewPosition ==
    /\ spc = "parsed"
    /\ view' = OcrTextInfo("parser", FALSE)
    /\ spc' = "review"
    /\ UNCHANGED <<scriptFrame, pc, exc, messages, imgExists, hocrExists>>

\* ui.message(_("Done")), and the script returns
AnnounceDone ==
    /\ spc = "review"
    /\ messages' = Append(messages, "Done")
    /\ spc' = "returned"
    /\ UNCHANGED <<scriptFrame, pc, exc, imgExists, hocrExists, view>>

Next ==
    \/ \E tag \in Tags \ {"span"} : StartElement(tag, NoAttrs)
    \/ \E attrs \in SpanAttrs : StartElement("span", attrs)
    \/ EndElement
    \/ \E data \in Datas : CharData(data)
    \/ ParseReturns
    \/ ParseRaises
    \/ SaveImage
    \/ SaveImageFails
    \/ AnnounceRunning
    \/ RunTesseract
    \/ RunTesseractFails
    \/ ReadHocr
    \/ ReadHocrFails
    \/ ParserEnds
    \/ SetReviewPosition
    \/ AnnounceDone
    \/ Copy
    \/ TakeResult
    \/ GetStoryLength
    \/ \E r \in Ranges : GetTextRange(r[1], r[2])
    \/ \E offset \in Offsets : GetLineOffsets(offset)
    \/ \E offset \in Offsets : GetWordOffsets(offset)
    \/ \E offset \in Offsets : GetPointFromOffset(offset)

Spec == Init /\ [][Next]_vars

---------------------------------------------------------------------------
(* Properties of the text view's point lookup *)

\* the words whose offset is at or before o
Covering(o) == {i \in 1..Len(words) : words[i].offset <= o}

\* the last of them in `words`
LastCovering(o) == CHOOSE i \in Covering(o) : \A j \in Covering(o) : j <= i

\* the point of a word: its coordinates as int() reports them
PointOf(w) == <<intOfFloat(w.left), intOfFloat(w.top)>>

ValidPointQuery == pc = "done" /\ result.op = "point" /\ result.offset \in 0..textLen

\* C1: for an offset in [0, storyLength()] that some word's offset does not
\* exceed, _getPointFromOffset returns the coordinates of the last word of
\* `words` whose offset is <= the offset, also when the offset is at or after
\* the offset of the final word.
C1_PointOfLastCoveringWord ==
    (ValidPointQuery /\ Covering(result.offset) # {}) =>
        /\ result.kind = "value"
        /\ result.value = PointOf(words[LastCovering(result.offset)])

\* C2: when no word's offset is <= the queried offset (no words, or an
\* offset before the first word's), _getPointFromOffset returns the capture
\* origin (leftCoordOffset, topCoordOffset) and raises nothing.
C2_OriginWhenNoWordCovers ==
    (ValidPointQuery /\ Covering(result.offset) = {}) =>
        /\ result.kind = "value"
        /\ result.value = <<leftCoordOffset, topCoordOffset>>


---------------------------------------------------------------------------
(* Properties of the parser's handlers *)

\* the event handled last is the start of a word marker whose title is
\* missing or does not split into a prefix and four numbers
MalformedWordEvent ==
    /\ event.kind = "start"
    /\ event.tag = "span"
    /\ "class" \in event.attrs.keys
    /\ event.attrs.class = "ocr_word"
    /\ \/ "title" \notin event.attrs.keys
       \/ LET parts == split(event.attrs.title, " ") IN
            \/ Len(parts) # 5
            \/ \E i \in 2..5 : ~IsIntLiteral(parts[i])

\* C3: a word marker whose title is missing or malformed (e.g.
\* "bbox 10 20 30") is skipped: the parse is not ended by it and goes on
\* over the remaining events.
C3_MalformedWordIsSkipped ==
    MalformedWordEvent => ~(pc = "failed" /\ exc # "ExpatError")

\* whitespace stripped at both ends of s
RECURSIVE lstrip(_)
lstrip(s) == IF s # <<>> /\ Head(s) \in Whitespace THEN lstrip(Tail(s)) ELSE s

RECURSIVE rstrip(_)
rstrip(s) ==
    IF s # <<>> /\ Last(s) \in Whitespace THEN rstrip(SubSeq(s, 1, Len(s) - 1)) ELSE s

\* every run of whitespace in s as one space
RECURSIVE collapse(_)
collapse(s) ==
    IF s = <<>> THEN <<>>
    ELSE IF Head(s) \notin Whitespace THEN <<Head(s)>> \o collapse(Tail(s))
    ELSE <<" ">> \o collapse(lstrip(s))

\* "  Hello   world  " as "Hello world"
Normalized(s) == collapse(rstrip(lstrip(s)))

\* C4: a character-data event that mixes whitespace and other characters,
\* delivered when nothing has been retained before it, leaves as flattened
\* text its content with the leading whitespace stripped and every inner
\* run of whitespace collapsed to one space (whitespace at the end of the
\* text is left out of the comparison).
C4_MixedDataIsNormalized ==
    (event.kind = "data" /\ ~isspace(event.data) /\ Len(textList) = 1) =>
        rstrip(join(textList)) = Normalized(event.data)

---------------------------------------------------------------------------
(* Properties of the text view's range lookups *)

\* the entries of `lines` strictly greater than o
LinesAfter(o) == {i \in 1..Len(lines) : lines[i] > o}

FirstLineAfter(o) == CHOOSE i \in LinesAfter(o) : \A j \in LinesAfter(o) : i <= j

\* C5: for an offset in [0, storyLength()], _getLineOffsets returns (start,
\* end) with end the first entry of `lines` strictly greater than the offset
\* and start the entry before it (0 if none); with no entry greater than the
\* offset it returns (last entry, storyLength()).  With boundaries
\* [5, 12, 20] and story length 20: 0 -> (0, 5), 5 -> (5, 12), 19 -> (12, 20).
C5_LineRangeIsFirstBoundaryAfter ==
    /\ (pc = "done" /\ result.op = "line" /\ result.offset \in 0..textLen) =>
          LET o == result.offset IN
          IF LinesAfter(o) # {}
          THEN LET i == FirstLineAfter(o) IN
               result.value = <<IF i = 1 THEN 0 ELSE lines[i - 1], lines[i]>>
          ELSE lines # <<>> =>
               result.value = <<Last(lines), getStoryLength(textLen)>>
    /\ getLineOffsets(<<5, 12, 20>>, 20, 0) = <<0, 5>>
    /\ getLineOffsets(<<5, 12, 20>>, 20, 5) = <<5, 12>>
    /\ getLineOffsets(<<5, 12, 20>>, 20, 19) = <<12, 20>>

\* a line query for an offset that has a boundary before it and one after it
C5_Witness ==
    /\ pc = "done" /\ result.op = "line" /\ result.offset \in 0..textLen
    /\ Len(lines) >= 2
    /\ result.value = <<lines[1], lines[2]>>
    /\ lines[1] <= result.offset /\ result.offset < lines[2]

\* what the range lookup `op` returns for offset o
RangeOf(op, o) ==
    IF op = "line" THEN getLineOffsets(lines, textLen, o)
    ELSE getWordOffsets(words, textLen, o)

\* C6: _getLineOffsets and _getWordOffsets each partition the story: for an
\* offset o in [0, storyLength()) the range (s, e) returned has s <= o < e,
\* and every offset in [s, e) gets the same range, for every document the
\* parser produces.
C6_RangesPartitionStory ==
    (pc = "done" /\ result.op \in {"line", "word"}
        /\ result.offset \in 0..(textLen - 1)) =>
        LET s == result.value[1]
            e == result.value[2]
        IN /\ s <= result.offset
           /\ result.offset < e
           /\ \A o \in s..(e - 1) : RangeOf(result.op, o) = result.value

\* a word query inside text that precedes the first word marker, in a
\* document that also has an empty line
C6_Witness ==
    /\ pc = "done" /\ result.op = "word" /\ result.offset = 1
    /\ words # <<>> /\ words[1].offset >= 2
    /\ result.value = <<0, words[1].offset>>
    /\ \E i \in 1..(Len(lines) - 1) : lines[i] = lines[i + 1]

---------------------------------------------------------------------------
(* Properties of the coordinates *)

\* left and top, in OCR-image pixels, of the parsable titles
BoxOf(title) == IF title = TitleEven THEN <<4, 6>> ELSE <<3, 7>>

ValidWordEvent ==
    /\ event.kind = "start"
    /\ event.tag = "span"
    /\ event.attrs.keys = {"class", "title"}
    /\ event.attrs.class = "ocr_word"
    /\ event.attrs.title \in {TitleEven, TitleOdd}

\* C7: with scale factor 2 and origin (100, 50), a word whose box has left
\* and top (L, T) is stored with left = 100 + L/2 and top = 50 + T/2, and
\* _getPointFromOffset at that word's offset reports exactly
\* (100 + L/2, 50 + T/2), wherever the word is in the document.
C7_CoordinateRoundTrip ==
    (leftCoordOffset = 100 /\ topCoordOffset = 50) =>
        /\ ValidWordEvent =>
              /\ IMAGE_RESIZE_FACTOR * 100 + BoxOf(event.attrs.title)[1] = Last(words).left
              /\ IMAGE_RESIZE_FACTOR * 50 + BoxOf(event.attrs.title)[2] = Last(words).top
        /\ (pc = "done" /\ result.op = "point") =>
              \A i \in 1..Len(words) :
                  words[i].offset = result.offset =>
                      /\ result.kind = "value"
                      /\ IMAGE_RESIZE_FACTOR * result.value[1] = words[i].left
                      /\ IMAGE_RESIZE_FACTOR * result.value[2] = words[i].top

---------------------------------------------------------------------------
(* Invariants of the parsed model *)

\* C8: the entries of `lines` are strictly increasing, also when a line
\* marker is followed by no retained text before the next line marker.
C8_LinesStrictlyIncreasing ==
    \A i \in 1..(Len(lines) - 1) : lines[i] < lines[i + 1]

\* C8 as amended: the entries of `lines` are non-decreasing; two entries are
\* equal when a line marker is followed by no retained text before the next
\* line marker.
C8_LinesNonDecreasing ==
    \A i \in 1..(Len(lines) - 1) : lines[i] <= lines[i + 1]

\* a parsed document with an empty line followed by a line with text
C8_Witness ==
    /\ pc = "done"
    /\ Len(lines) >= 3
    /\ lines[1] = lines[2]
    /\ lines[2] < lines[3]

\* C9: in every state during and after the parse `words` is ordered by
\* non-decreasing offset and every word offset and every entry of `lines`
\* lies in [0, textLen]; after the parse they lie in [0, storyLength()].
C9_OffsetsOrderedAndInRange ==
    /\ \A i \in 1..(Len(words) - 1) : words[i].offset <= words[i + 1].offset
    /\ \A i \in 1..Len(words) : words[i].offset \in 0..textLen
    /\ \A i \in 1..Len(lines) : lines[i] \in 0..textLen
    /\ pc = "done" =>
          /\ \A i \in 1..Len(words) : words[i].offset \in 0..getStoryLength(textLen)
          /\ \A i \in 1..Len(lines) : lines[i] \in 0..getStoryLength(textLen)

\* a parsed document with a line and two words at different offsets, the
\* last of them at the end of the text
C9_Witness ==
    /\ pc = "done"
    /\ lines # <<>>
    /\ Len(words) >= 2
    /\ words[1].offset < words[2].offset
    /\ Last(words).offset = textLen

RECURSIVE SumLen(_)
SumLen(l) == IF l = <<>> THEN 0 ELSE Len(Head(l)) + SumLen(Tail(l))

\* C10: after every parse event textLen is the sum of the lengths of the
\* fragments retained so far; after the parse _getStoryLength, which returns
\* textLen, gives the length of the concatenated text.
C10_TextLenIsLengthOfText ==
    /\ textLen = SumLen(textList)
    /\ pc = "done" => getStoryLength(textLen) = Len(text)
    /\ (pc = "done" /\ result.op = "storyLength") => result.value = <<Len(text)>>

\* a story length query on a document of several fragments, one of them
\* whitespace collapsed to a space and one longer than a character
C10_Witness ==
    /\ pc = "done"
    /\ result.op = "storyLength"
    /\ \E i \in 1..Len(textList) : textList[i] = <<" ">>
    /\ \E i \in 1..Len(textList) : Len(textList[i]) > 1
    /\ event.kind = "end"

---------------------------------------------------------------------------
---------------------------------------------------------------------------
\* the last query broke the caller's contract: an offset outside
\* [0, storyLength], or a text range whose start is after its end
OutOfContract ==
    /\ result.op \in {"text", "line", "word", "point"}
    /\ \/ result.offset \notin 0 .. textLen
       \/ /\ result.op = "text"
          /\ \/ result.end \notin 0 .. textLen
             \/ result.offset > result.end

\* C12: a range query that breaks the caller's contract (a text range with
\* start after end, or a text, line, word or point query at an offset
\* outside [0, storyLength]) ends in an error and returns no value.
C12_ContractViolationsRaise ==
    OutOfContract => result.kind = "error"

---------------------------------------------------------------------------
\* what the query (op, offset, end) returns on the view v
Answer(v, op, offset, end) ==
    LET p == ParserOf(v) IN
    CASE op = "storyLength" -> Query(op, 0, Returns(<<getStoryLength(p.textLen)>>))
      [] op = "text" -> RangeQuery(offset, end, Returns(getTextRange(p.text, offset, end)))
      [] op = "line" ->
            Query(op, offset, Returns(getLineOffsets(p.lines, p.textLen, offset)))
      [] op = "word" ->
            Query(op, offset, Returns(getWordOffsets(p.words, p.textLen, offset)))
      [] op = "point" ->
            Query(op, offset, getPointFromOffset(p.words, p.leftCoordOffset,
                                                 p.topCoordOffset, offset))

\* C13: copy() gives a view on the same parser; no query and no copy
\* changes text, textLen, lines or words; and every query, on the view the
\* script made or on a copy of it, returns what the same query returns on
\* the view the script made.
C13_CopySharesUnchangedModel ==
    [][spc = "returned" =>
          /\ UNCHANGED <<text, textLen, lines, words>>
          /\ view'.parser = view.parser
          /\ \A op \in {"storyLength", "text", "line", "word", "point"} :
                \A o \in Offsets, e \in {0, textLen, textLen + 1} :
                    Answer(copy(view), op, o, e) = Answer(view, op, o, e)
          /\ result' # NoResult =>
                result' = Answer(OcrTextInfo("parser", FALSE),
                                 result'.op, result'.offset, result'.end)]_vars

\* a text range of several characters answered on a copy, for a document
\* with a line and a word
C13_Witness ==
    /\ view.isCopy
    /\ result.op = "text"
    /\ Len(result.value) >= 2
    /\ lines # <<>>
    /\ words # <<>>

---------------------------------------------------------------------------
\* C14: a whitespace-only character-data event appends nothing when the
\* last character retained so far is a space, whether that space is a
\* fragment of its own or the end of a longer fragment.
C14_NoSpaceAfterSpace ==
    [][(/\ nEvents' = nEvents + 1
        /\ event'.kind = "data"
        /\ isspace(event'.data)
        /\ textList # <<>>
        /\ Last(Last(textList)) = " ") => textList' = textList]_vars

---------------------------------------------------------------------------
\* C15: the block-content flag is one boolean that is overwritten: the start
\* of a p or div sets it to false at any depth, an end event leaves it as it
\* is, it becomes true only with a character-data event whose data is
\* appended, and while it is false a whitespace-only event appends nothing
\* and leaves it false (even when enclosing blocks have text already).
C15_FlagIsOverwrittenNotStacked ==
    [][/\ (depth' = depth + 1 /\ event'.tag \in {"p", "div"}) =>
              ~hasBlockHadContent'
       /\ depth' = depth - 1 => hasBlockHadContent' = hasBlockHadContent
       /\ (hasBlockHadContent' /\ ~hasBlockHadContent) =>
              /\ nEvents' = nEvents + 1
              /\ event'.kind = "data"
              /\ textList' = Append(textList, event'.data)
       /\ (/\ ~hasBlockHadContent
           /\ nEvents' = nEvents + 1
           /\ event'.kind = "data"
           /\ isspace(event'.data)) =>
              /\ textList' = textList
              /\ ~hasBlockHadContent']_vars

\* an outer block retained text, an inner block opened and closed, and a
\* whitespace-only event after it was discarded with the flag still false
C15_Witness ==
    /\ pc = "parsing"
    /\ depth = 1
    /\ nEvents = 4
    /\ textList # <<>>
    /\ ~hasBlockHadContent
    /\ event.kind = "data"
    /\ isspace(event.data)

---------------------------------------------------------------------------
\* C16: a line marker's start event appends to lines the number of characters
\* retained from the events before it, and nothing else changes lines; so
\* the characters appended between the i-th and the (i+1)-th marker are at
\* the offsets lines[i] .. lines[i+1] - 1, and a line query at such an offset
\* returns (lines[i], lines[i+1]).
C16_LineMarkerRecordsLengthBefore ==
    [][/\ lines' # lines =>
              /\ event'.kind = "start"
              /\ event'.attrs.class = "ocr_line"
              /\ lines' = Append(lines, SumLen(textList))
              /\ textList' = textList
       /\ result'.op = "line" =>
              \A i \in 1 .. Len(lines') - 1 :
                  (lines'[i] <= result'.offset /\ result'.offset < lines'[i + 1]) =>
                      result'.value = <<lines'[i], lines'[i + 1]>>]_vars

\* a line query at a character of the first of two lines, both with text
C16_Witness ==
    /\ result.op = "line"
    /\ Len(lines) = 2
    /\ lines[1] <= result.offset
    /\ result.offset < lines[2]
    /\ lines[2] < textLen
    /\ result.value = <<lines[1], lines[2]>>

---------------------------------------------------------------------------
\* attrs has no class, or a class that marks neither a line nor a word
UnrecognisedClass(attrs) ==
    \/ "class" \notin attrs.keys
    \/ attrs.class \notin {"ocr_line", "ocr_word"}

\* C17: the start of a span whose class is neither ocr_line nor ocr_word, or
\* which has no class at all, is ignored: lines, words, the text, its length
\* and the content flag stay as they are and the parse goes on.
C17_UnrecognisedSpanIsIgnored ==
    [][(/\ nEvents' = nEvents + 1
        /\ event'.kind = "start"
        /\ event'.tag = "span"
        /\ UnrecognisedClass(event'.attrs)) =>
            /\ pc' = "parsing"
            /\ UNCHANGED <<lines, words, textList, textLen, hasBlockHadContent>>]_vars

---------------------------------------------------------------------------
\* the script has ended: it returned, or an exception left it
ScriptEnded == spc \in {"returned", "raised"}

\* C18: a run that announced "Running OCR" has, when the script ends, made
\* exactly one more announcement: "Done" when Tesseract and the parse both
\* succeeded, an announcement of the failure otherwise; and "Done" is
\* announced only after the parse has succeeded and the review position is
\* set.
C18_OneTerminalAnnouncement ==
    /\ (ScriptEnded /\ messages # <<>>) =>
           /\ Len(messages) = 2
           /\ messages[1] = "Running OCR"
           /\ messages[2] = "Done" <=> spc = "returned"
    /\ (\E i \in 1 .. Len(messages) : messages[i] = "Done") =>
           (pc = "done" /\ view # NoView)

---------------------------------------------------------------------------
\* offsets well outside the story as well as inside it
WideOffsets == (0 - textLen - 2) .. (2 * textLen + 2)

\* (start, end) is an ordered pair of offsets of the story
InStory(pair) ==
    /\ 0 <= pair[1]
    /\ pair[1] <= pair[2]
    /\ pair[2] <= getStoryLength(textLen)

\* C19: for every parsed document and every offset, below 0 and above the
\* story length included, _getLineOffsets and _getWordOffsets return a pair
\* (start, end) with 0 <= start <= end <= story length; so does every line
\* or word query the host made.
C19_RangesLieInStory ==
    /\ pc = "done" =>
           \A o \in WideOffsets :
               /\ InStory(getLineOffsets(lines, textLen, o))
               /\ InStory(getWordOffsets(words, textLen, o))
    /\ result.op \in {"line", "word"} =>
           (result.kind = "value" /\ InStory(result.value))

\* line and word queries below 0 and above the story length, on a document
\* with text, lines and words
C19_Witness ==
    /\ result.op \in {"line", "word"}
    /\ result.offset \notin 0 .. textLen
    /\ textLen > 1
    /\ lines # <<>>
    /\ words # <<>>
    /\ Last(lines) > 0

---------------------------------------------------------------------------
\* Tesseract ran and returned without an error
OcrSucceeded ==
    /\ \E i \in 1 .. Len(messages) : messages[i] = "Running OCR"
    /\ spc # "announced"
    /\ exc # "CalledProcessError"

====
